---- MODULE Spec2Model ----
(***************************************************************************)
(* Model of the escape-the-abyss rendering demo: the ModelLoader class     *)
(* (model_loader.cpp / model_loader.h) and the camera / input / frame      *)
(* callbacks of main.cpp.                                                  *)
(*                                                                         *)
(* Floats are modelled as integers.  Vertex attributes are small distinct  *)
(* integers.  Angles are in hundredths of a degree, so the mouse           *)
(* sensitivity 0.1 is 10 units per pixel and the pitch limit 89.0 is 8900. *)
(* Rounding of float arithmetic is not modelled.                           *)
(***************************************************************************)
EXTENDS Integers, Sequences, FiniteSets, TLC

VARIABLES
    meshes,     \* meshes[l]: ModelLoader::meshes of loader l
    alive,      \* alive[l]: loader l is constructed and not yet destroyed
    scene,      \* scene[l]: what the importer returned to the last loadModel of l
    gl,         \* the OpenGL server state and the calls of the last loader method
    nLoads,     \* number of loadModel calls made so far
    lastLoad,   \* loader of the most recent loadModel call, 0 before the first
    yaw, pitch, lastX, lastY, firstMouse,   \* mouse-look globals of main.cpp
    cameraFront,                            \* direction the camera looks along
    pointer,    \* position reported by the last mouse-motion event, or NoEvent
    cameraPos,  \* camera position
    keys,       \* the key codes k with keys[k] true
    projection, view,   \* the global matrices
    redisplay,  \* a redisplay has been requested and not yet served
    timers,     \* number of pending frame timers
    pc          \* "start": before main's setup; "loop": in glutMainLoop; "exit"

vars == <<meshes, alive, scene, gl, nLoads, lastLoad,
          yaw, pitch, lastX, lastY, firstMouse, cameraFront, pointer,
          cameraPos, keys, projection, view, redisplay, timers, pc>>

loaderVars == <<meshes, alive, scene, gl, nLoads, lastLoad>>
mouseVars  == <<yaw, pitch, lastX, lastY, firstMouse, cameraFront, pointer>>
frameVars  == <<cameraPos, keys, projection, view, redisplay, timers>>

(***************************************************************************)
(* Bounds                                                                  *)
(***************************************************************************)
MaxLoads   == 2      \* loadModel calls in one behaviour of the loader interface
MaxMoves   == 1      \* camera steps, net, in one behaviour of the program

(***************************************************************************)
(* Program constants                                                       *)
(***************************************************************************)
NumLoaders == 2      \* modelLoader1, modelLoader2
FloatsPerVertex == 8 \* stride of the vertex attribute layout

Loaders == 1..NumLoaders

(***************************************************************************)
(* Fold helpers                                                            *)
(***************************************************************************)
RECURSIVE Concat(_)
Concat(ss) == IF ss = <<>> THEN <<>> ELSE Head(ss) \o Concat(Tail(ss))

Range(s) == {s[i] : i \in 1..Len(s)}

(***************************************************************************)
(* The importer's output (aiScene, aiNode, aiMesh, aiMaterial) and the     *)
(* image files on disk: the inputs of loadModel.                           *)
(***************************************************************************)
\* A null attribute array is the empty sequence: every mesh has at least one
\* vertex, so a non-null array is never empty.
NoTexCoords == <<>>           \* mTextureCoords[0] == nullptr
NoNormals   == <<>>           \* mNormals == nullptr
NoDiffuse   == "none"         \* material without a diffuse texture entry

\* Image files under the model directory: the component count stbi_load
\* reports, 0 when the file cannot be decoded.
FileChannels(path) ==
    CASE path = "a.png"    -> 3
      [] path = "grey.png" -> 1
      [] path = "rgba.png" -> 4
      [] path = "ga.png"   -> 2
      [] OTHER             -> 0

\* scene->mMaterials: the diffuse texture path of each material.
Materials == << NoDiffuse, "a.png", "bad.png", "a.png", "ga.png", "grey.png", "rgba.png" >>

\* Attribute values: component c of vertex i of source mesh m.
Val(m, i, c) == 100 * m + 10 * i + c
Pos(m, i)  == << Val(m, i, 1), Val(m, i, 2), Val(m, i, 3) >>
Nrm(m, i)  == << Val(m, i, 4), Val(m, i, 5), Val(m, i, 6) >>
Tex(m, i)  == << Val(m, i, 7), Val(m, i, 8), Val(m, i, 9) >>   \* aiVector3D

AiMesh(m, n, hasN, hasT, faces, mat) ==
    [ mVertices      |-> [i \in 1..n |-> Pos(m, i)],
      mNormals       |-> IF hasN THEN [i \in 1..n |-> Nrm(m, i)] ELSE NoNormals,
      mTextureCoords |-> IF hasT THEN [i \in 1..n |-> Tex(m, i)] ELSE NoTexCoords,
      mFaces         |-> faces,
      mMaterialIndex |-> mat ]

\* scene->mMeshes.  Face indices are 0-based as in the source and valid, as
\* the importer guarantees.
SrcMeshes ==
    << AiMesh(1, 3, TRUE,  TRUE,  << <<0, 1, 2>> >>,         2),
       AiMesh(2, 1, FALSE, FALSE, << <<0>> >>,               1),
       AiMesh(3, 2, FALSE, TRUE,  << <<0, 1>>, <<1, 0>> >>,  3),
       AiMesh(4, 2, TRUE,  FALSE, << <<1, 0>> >>,            4),
       AiMesh(5, 1, TRUE,  TRUE,  << <<0>> >>,               5),
       AiMesh(6, 1, TRUE,  TRUE,  << <<0>> >>,               6),
       AiMesh(7, 1, TRUE,  TRUE,  << <<0>> >>,               7) >>

AiNode(ms, ch) == [ mMeshes |-> ms, mChildren |-> ch ]

\* Node arrays; node 1 is the root, mChildren holds node numbers.
TreeA == << AiNode(<<>>, <<>>) >>
TreeB == << AiNode(<<1>>, <<>>) >>
TreeC == << AiNode(<<2, 1>>, <<>>) >>
TreeD == << AiNode(<<3>>, <<2, 4>>), AiNode(<<1>>, <<3>>),
            AiNode(<<2>>, <<>>),     AiNode(<<4>>, <<>>) >>
TreeE == << AiNode(<<>>, <<2, 3>>), AiNode(<<2>>, <<>>), AiNode(<<2, 4>>, <<>>) >>
TreeF == << AiNode(<<4, 1>>, <<2>>), AiNode(<<3>>, <<>>) >>

TreeG == << AiNode(<<5, 6>>, <<2>>), AiNode(<<7>>, <<>>) >>

Trees == {TreeA, TreeB, TreeC, TreeD, TreeE, TreeF, TreeG}

AiScene(null, incomplete, root, nodes) ==
    [ isNull     |-> null,          \* ReadFile returned nullptr
      incomplete |-> incomplete,    \* mFlags & AI_SCENE_FLAGS_INCOMPLETE
      mRootNode  |-> root,          \* 0 is nullptr
      nodes      |-> nodes,
      mMeshes    |-> SrcMeshes,
      mMaterials |-> Materials ]

GoodScenes == { AiScene(FALSE, FALSE, 1, t) : t \in Trees }
BadScenes  == { AiScene(TRUE,  FALSE, 0, <<>>),
                AiScene(FALSE, TRUE,  1, TreeC),
                AiScene(FALSE, FALSE, 0, TreeB),
                AiScene(FALSE, TRUE,  0, <<>>) }
Scenes == GoodScenes \cup BadScenes

\* What the importer may return for the two models main loads.
Scenes1 == { AiScene(FALSE, FALSE, 1, TreeD) }
Scenes2 == { AiScene(FALSE, FALSE, 1, TreeC) }

NoScene == [ isNull |-> TRUE, incomplete |-> FALSE, mRootNode |-> 0,
             nodes |-> <<>>, mMeshes |-> <<>>, mMaterials |-> <<>>,
             never |-> TRUE ]

(***************************************************************************)
(* OpenGL server state                                                     *)
(***************************************************************************)
\* vaos[h] / bufs[h]: number of glDelete* calls made on name h, for every
\* name glGenVertexArrays / glGenBuffers has returned.
\* texs[h]: the texture object named h: its source path, its uploaded format
\* and the number of glDeleteTextures calls made on it.
\* boundTex: texture bound to GL_TEXTURE_2D.  decodes: stbi_load calls made.
\* calls: the bind and draw calls issued by the most recent ModelLoader method
\* (loadModel, draw or the destructor), each with the texture bound when it
\* was issued.
\* viewport: the size given to glViewport.  uniforms: the matrices uploaded to
\* the shader program.
GLInit == [ vaos |-> <<>>, bufs |-> <<>>, texs |-> <<>>,
            boundTex |-> 0, decodes |-> 0, calls |-> <<>>,
            viewport |-> <<0, 0>>,
            uniforms |-> [ projection |-> "unset", view |-> "unset", model |-> "unset" ] ]

GLCall(fn, arg, g) == [ fn |-> fn, arg |-> arg, tex |-> g.boundTex ]

(***************************************************************************)
(* ModelLoader                                                             *)
(***************************************************************************)
HasNormals(mesh) == mesh.mNormals # NoNormals /\ Len(mesh.mVertices) > 0

\* The pixel format chosen for a decoded image.
Format(nrChannels) ==
    IF nrChannels = 1 THEN "GL_RED"
    ELSE IF nrChannels = 3 THEN "GL_RGB" ELSE "GL_RGBA"

\* ModelLoader::loadTextureFromFile: returns the texture name and the new GL
\* state.  The name generated at entry is returned whether or not the image
\* decodes.
loadTextureFromFile(texturePath, g) ==
    LET textureID  == Len(g.texs) + 1
        nrChannels == FileChannels(texturePath)
        data       == nrChannels # 0
        obj        == [ path    |-> texturePath,
                        image   |-> IF data THEN Format(nrChannels) ELSE "none",
                        deletes |-> 0 ]
        g1         == [g EXCEPT !.boundTex = textureID]
    IN  [ id |-> textureID,
          gl |-> [g EXCEPT !.texs = Append(@, obj),
                           !.decodes = @ + 1,
                           !.boundTex = 0,
                           !.calls = @ \o << GLCall("glBindTexture", textureID, g),
                                             GLCall("glBindTexture", 0, g1) >>] ]

\* loadTexture without the AI_SUCCESS test.
loadTexture_always(material, g) == loadTextureFromFile(material, g)

\* ModelLoader::loadTexture for aiTextureType_DIFFUSE.
loadTexture(material, g) ==
    IF material # NoDiffuse
    THEN loadTextureFromFile(material, g)
    ELSE [ id |-> 0, gl |-> g ]

\* VertexFloats without the zero fill for missing normals.
VertexFloats_noZeroNormal(mesh, i) ==
    mesh.mVertices[i]
    \o (IF HasNormals(mesh) THEN mesh.mNormals[i] ELSE <<>>)
    \o (IF mesh.mTextureCoords # NoTexCoords
        THEN << mesh.mTextureCoords[i][1], mesh.mTextureCoords[i][2] >>
        ELSE <<0, 0>>)

\* The 8 floats pushed for vertex i (1-based) of a source mesh.
VertexFloats(mesh, i) ==
    mesh.mVertices[i]
    \o (IF HasNormals(mesh) THEN mesh.mNormals[i] ELSE <<0, 0, 0>>)
    \o (IF mesh.mTextureCoords # NoTexCoords
        THEN << mesh.mTextureCoords[i][1], mesh.mTextureCoords[i][2] >>
        ELSE <<0, 0>>)

\* FaceIndices taking the face indices as 1-based.
FaceIndices_oneBased(mesh) ==
    LET flat == Concat(mesh.mFaces) IN [j \in 1..Len(flat) |-> flat[j] + 1]

\* The index loop of processMesh.
FaceIndices(mesh) == Concat(mesh.mFaces)

\* ModelLoader::processMesh: returns the built Mesh and the new GL state.
processMesh(mesh, sc, g) ==
    LET vertices == Concat([i \in 1..Len(mesh.mVertices) |-> VertexFloats(mesh, i)])
        indices  == FaceIndices(mesh)
        material == sc.mMaterials[mesh.mMaterialIndex]
        t        == loadTexture(material, g)
        textures == IF t.id # 0
                    THEN << [ id |-> t.id, type |-> "texture_diffuse",
                              path |-> "diffuse" ] >>
                    ELSE <<>>
        g1       == t.gl
        VAO      == Len(g1.vaos) + 1
        VBO      == Len(g1.bufs) + 1
        EBO      == Len(g1.bufs) + 2
    IN  [ mesh |-> [ vertices |-> vertices, indices |-> indices,
                     textures |-> textures,
                     VAO |-> VAO, VBO |-> VBO, EBO |-> EBO ],
          gl   |-> [g1 EXCEPT !.vaos = Append(@, 0),
                              !.bufs = @ \o <<0, 0>>,
                              !.calls = @ \o << GLCall("glBindVertexArray", VAO, g1),
                                                GLCall("glBindVertexArray", 0, g1) >>] ]

\* ModelLoader::processNode.  st is [meshes, gl]; the two loops of the body
\* are NodeMeshes and NodeChildren.
RECURSIVE processNode(_, _, _), NodeMeshes(_, _, _, _), NodeChildren(_, _, _, _)
NodeMeshes(node, sc, i, st) ==
    IF i > Len(node.mMeshes) THEN st
    ELSE LET r == processMesh(sc.mMeshes[node.mMeshes[i]], sc, st.gl)
         IN  NodeMeshes(node, sc, i + 1,
                        [ meshes |-> Append(st.meshes, r.mesh), gl |-> r.gl ])

NodeChildren(node, sc, i, st) ==
    IF i > Len(node.mChildren) THEN st
    ELSE NodeChildren(node, sc, i + 1,
                      processNode(sc.nodes[node.mChildren[i]], sc, st))

\* processNode descending into the children before the node's own meshes.
RECURSIVE processNode_childrenFirst(_, _, _), ChildrenFirstLoop(_, _, _, _)
ChildrenFirstLoop(node, sc, i, st) ==
    IF i > Len(node.mChildren) THEN st
    ELSE ChildrenFirstLoop(node, sc, i + 1,
             processNode_childrenFirst(sc.nodes[node.mChildren[i]], sc, st))

processNode_childrenFirst(node, sc, st) ==
    NodeMeshes(node, sc, 1, ChildrenFirstLoop(node, sc, 1, st))

processNode(node, sc, st) ==
    NodeChildren(node, sc, 1, NodeMeshes(node, sc, 1, st))

\* The failure test of loadModel.
ImportFailed(sc) == sc.isNull \/ sc.incomplete \/ sc.mRootNode = 0

\* loadModel without the AI_SCENE_FLAGS_INCOMPLETE test.
loadModel_noFlagTest(ms, sc, g) ==
    LET cleared == [ meshes |-> <<>>, gl |-> g ]
    IN  IF sc.isNull \/ sc.mRootNode = 0 THEN cleared
        ELSE processNode(sc.nodes[sc.mRootNode], sc, cleared)

\* loadModel without meshes.clear().
loadModel_noClear(ms, sc, g) ==
    LET kept == [ meshes |-> ms, gl |-> g ]
    IN  IF ImportFailed(sc) THEN kept
        ELSE processNode(sc.nodes[sc.mRootNode], sc, kept)

\* ModelLoader::loadModel on a loader holding ms, the importer returning sc.
loadModel(ms, sc, g) ==
    LET cleared == [ meshes |-> <<>>, gl |-> g ]
    IN  IF ImportFailed(sc) THEN cleared
        ELSE processNode(sc.nodes[sc.mRootNode], sc, cleared)

\* ModelLoader::draw.
RECURSIVE draw(_, _)
draw(ms, g) ==
    IF ms = <<>> THEN g
    ELSE LET mesh == Head(ms)
             g1 == IF mesh.textures # <<>>
                   THEN [g EXCEPT
                           !.boundTex = mesh.textures[1].id,
                           !.calls = @ \o << GLCall("glActiveTexture", 0, g),
                                             GLCall("glBindTexture", mesh.textures[1].id, g) >>]
                   ELSE g
             g2 == [g1 EXCEPT
                      !.calls = @ \o << GLCall("glBindVertexArray", mesh.VAO, g1),
                                        GLCall("glDrawElements", Len(mesh.indices), g1),
                                        GLCall("glBindVertexArray", 0, g1) >>]
         IN  draw(Tail(ms), g2)

\* A destructor that also deletes the textures of its meshes.
RECURSIVE destroy_withTextures(_, _)
destroy_withTextures(ms, g) ==
    IF ms = <<>> THEN g
    ELSE LET mesh == Head(ms)
             g1   == [g EXCEPT !.vaos[mesh.VAO] = @ + 1,
                               !.bufs[mesh.VBO] = @ + 1,
                               !.bufs[mesh.EBO] = @ + 1]
             g2   == IF mesh.textures = <<>> THEN g1
                     ELSE [g1 EXCEPT !.texs[mesh.textures[1].id].deletes = @ + 1]
         IN  destroy_withTextures(Tail(ms), g2)

\* ModelLoader::~ModelLoader: the delete calls of the destructor body.
RECURSIVE destroy(_, _)
destroy(ms, g) ==
    IF ms = <<>> THEN g
    ELSE LET mesh == Head(ms)
         IN  destroy(Tail(ms),
                     [g EXCEPT !.vaos[mesh.VAO] = @ + 1,
                               !.bufs[mesh.VBO] = @ + 1,
                               !.bufs[mesh.EBO] = @ + 1])

(***************************************************************************)
(* main.cpp: camera, input and frame callbacks                             *)
(***************************************************************************)
WIDTH  == 2400
HEIGHT == 1800
Sensitivity == 10       \* 0.1 degree per pixel
PitchLimit  == 8900     \* 89.0 degrees
YawInit     == -9000    \* -90.0 degrees

NoEvent == <<>>

\* Pointer positions reported by mouse-motion events.
PointerXs == {0, 1200, 2400}
PointerYs == {0, 450, 900, 1800}

\* Inputs of the whole-program specification.
MainXs    == {0, 2400}
MainYs    == {900}
KeyCodes  == {"w", "s", "a", "d", "e"}
WindowSizes == { <<1200, 1800>> }

\* The forward vector is a function of the angles it was computed from;
\* glm::vec3(0, 0, -1) is the direction of yaw -90, pitch 0.
Front(y, p) == [ yaw |-> y, pitch |-> p ]

\* Clamp without the lower limit.
Clamp_upperOnly(p) == IF p > PitchLimit THEN PitchLimit ELSE p

\* The pitch constraint of mouseMotion.
Clamp(p) == IF p > PitchLimit THEN PitchLimit
            ELSE IF p < -PitchLimit THEN -PitchLimit ELSE p

RECURSIVE GCD(_, _)
GCD(a, b) == IF b = 0 THEN a ELSE GCD(b, a % b)

\* glm::perspective(45 degrees, w / h, 0.1, 100): the aspect ratio as a
\* reduced fraction.
Perspective(w, h) == [ aspect |-> << w \div GCD(w, h), h \div GCD(w, h) >> ]

\* glm::lookAt(pos, pos + front, cameraUp)
LookAt(pos, front) == [ eye |-> pos, front |-> front ]

DefaultMat == [ aspect |-> <<0, 0>> ]     \* a default-constructed glm::mat4

\* The camera position is cameraPos0 plus a sum of steps of length
\* cameraSpeed; it is kept as the net number of steps taken along each
\* direction, a direction being forward or right of some forward vector.
\* Directions with a net count of 0 are dropped.
Step(dir, front) == [ dir |-> dir, front |-> front ]

Move(pos, step, n) ==
    LET old == IF step \in DOMAIN pos THEN pos[step] ELSE 0
        new == old + n
        dom == IF new = 0 THEN DOMAIN pos \ {step} ELSE DOMAIN pos \cup {step}
    IN  [ t \in dom |-> IF t = step THEN new ELSE pos[t] ]

CameraPos0 == [ t \in {} |-> 0 ]   \* glm::vec3(0, 0, 5)

Abs(n) == IF n < 0 THEN -n ELSE n

RECURSIVE Steps(_)
Steps(pos) ==
    IF DOMAIN pos = {} THEN 0
    ELSE LET t == CHOOSE u \in DOMAIN pos : TRUE
         IN  Abs(pos[t]) + Steps([ u \in DOMAIN pos \ {t} |-> pos[u] ])

\* processKeyboard moving forward whatever keys are held.
processKeyboard_always(pos, held, front) == Move(pos, Step("front", front), 1)

\* processKeyboard: the new camera position for the keys held.
processKeyboard(pos, held, front) ==
    LET p1 == IF "w" \in held THEN Move(pos, Step("front", front), 1) ELSE pos
        p2 == IF "s" \in held THEN Move(p1, Step("front", front), -1) ELSE p1
        p3 == IF "a" \in held THEN Move(p2, Step("right", front), -1) ELSE p2
        p4 == IF "d" \in held THEN Move(p3, Step("right", front), 1) ELSE p3
    IN  p4

SpidermanModel == [ translate |-> <<-2, 0, 0>>, rotateY |-> 90, scale |-> 15 ]
MonsterModel   == [ translate |-> <<2, 0, 0>>,  rotateY |-> 90, scale |-> 15 ]

(***************************************************************************)
(* State machine                                                           *)
(***************************************************************************)
Init ==
    /\ pc = "start"
    /\ meshes = [l \in Loaders |-> <<>>]
    /\ alive = [l \in Loaders |-> TRUE]
    /\ scene = [l \in Loaders |-> NoScene]
    /\ gl = GLInit
    /\ nLoads = 0
    /\ lastLoad = 0
    /\ yaw = YawInit
    /\ pitch = 0
    /\ lastX = WIDTH \div 2
    /\ lastY = HEIGHT \div 2
    /\ firstMouse = TRUE
    /\ cameraFront = Front(YawInit, 0)
    /\ pointer = NoEvent
    /\ cameraPos = CameraPos0
    /\ keys = {}
    /\ projection = DefaultMat
    /\ view = DefaultMat
    /\ redisplay = FALSE
    /\ timers = 0

\* A loadModel call on loader l, the importer returning sc.
LoadModel(l, sc) ==
    /\ alive[l]
    /\ pc = "start"
    /\ nLoads < MaxLoads
    /\ LET r == loadModel(meshes[l], sc, [gl EXCEPT !.calls = <<>>])
       IN  /\ meshes' = [meshes EXCEPT ![l] = r.meshes]
           /\ gl' = r.gl
    /\ scene' = [scene EXCEPT ![l] = sc]
    /\ nLoads' = nLoads + 1
    /\ lastLoad' = l
    /\ UNCHANGED <<pc, alive, mouseVars, frameVars>>

\* A draw call on loader l.
Draw(l) ==
    /\ alive[l]
    /\ pc = "start"
    /\ gl' = draw(meshes[l], [gl EXCEPT !.calls = <<>>])
    /\ UNCHANGED <<pc, meshes, alive, scene, nLoads, lastLoad, mouseVars, frameVars>>

\* Destruction of loader l.
Destroy(l) ==
    /\ alive[l]
    /\ pc = "start"
    /\ gl' = destroy(meshes[l], [gl EXCEPT !.calls = <<>>])
    /\ alive' = [alive EXCEPT ![l] = FALSE]
    /\ meshes' = [meshes EXCEPT ![l] = <<>>]
    /\ UNCHANGED <<pc, scene, nLoads, lastLoad, mouseVars, frameVars>>

\* mouseMotion without the first-sample branch.
mouseMotion_noBaseline(x, y) ==
    LET xoffset == (x - lastX) * Sensitivity
        yoffset == (lastY - y) * Sensitivity
    IN  /\ firstMouse' = FALSE
        /\ lastX' = x
        /\ lastY' = y
        /\ yaw' = yaw + xoffset
        /\ pitch' = Clamp(pitch + yoffset)
        /\ cameraFront' = Front(yaw', pitch')
        /\ pointer' = <<x, y>>
        /\ UNCHANGED <<pc, loaderVars, frameVars>>

\* mouseMotion scaling the vertical offset by half the sensitivity.
mouseMotion_halfVertical(x, y) ==
    LET lx0     == IF firstMouse THEN x ELSE lastX
        ly0     == IF firstMouse THEN y ELSE lastY
        xoffset == (x - lx0) * Sensitivity
        yoffset == (ly0 - y) * (Sensitivity \div 2)
    IN  /\ firstMouse' = FALSE
        /\ lastX' = x
        /\ lastY' = y
        /\ yaw' = yaw + xoffset
        /\ pitch' = Clamp(pitch + yoffset)
        /\ cameraFront' = Front(yaw', pitch')
        /\ pointer' = <<x, y>>
        /\ UNCHANGED <<pc, loaderVars, frameVars>>

\* The mouse-motion callback.
mouseMotion(x, y) ==
    LET lx0     == IF firstMouse THEN x ELSE lastX
        ly0     == IF firstMouse THEN y ELSE lastY
        xoffset == (x - lx0) * Sensitivity
        yoffset == (ly0 - y) * Sensitivity
    IN  /\ firstMouse' = FALSE
        /\ lastX' = x
        /\ lastY' = y
        /\ yaw' = yaw + xoffset
        /\ pitch' = Clamp(pitch + yoffset)
        /\ cameraFront' = Front(yaw', pitch')
        /\ pointer' = <<x, y>>
        /\ UNCHANGED <<pc, loaderVars, frameVars>>

\* main up to glutMainLoop, glewInit succeeding: setupOpenGL loads the two
\* models, the callbacks and the first timer are registered, and the new
\* window is due a first display.
Setup(sc1, sc2) ==
    /\ pc = "start"
    /\ nLoads = 0
    /\ \A l \in Loaders : alive[l]
    /\ LET r1 == loadModel(meshes[1], sc1, gl)
           r2 == loadModel(meshes[2], sc2, r1.gl)
       IN  /\ meshes' = [meshes EXCEPT ![1] = r1.meshes, ![2] = r2.meshes]
           /\ gl' = r2.gl
    /\ scene' = [scene EXCEPT ![1] = sc1, ![2] = sc2]
    /\ nLoads' = 2
    /\ lastLoad' = 2
    /\ timers' = 1
    /\ redisplay' = TRUE
    /\ pc' = "loop"
    /\ UNCHANGED <<alive, mouseVars, cameraPos, keys, projection, view>>

\* Process exit: the destructors of modelLoader2 and modelLoader1 run.
Exit ==
    /\ gl' = destroy(meshes[1], destroy(meshes[2], [gl EXCEPT !.calls = <<>>]))
    /\ alive' = [l \in Loaders |-> FALSE]
    /\ meshes' = [l \in Loaders |-> <<>>]
    /\ pc' = "exit"

\* main returning -1 because glewInit failed.
GlewFail ==
    /\ pc = "start"
    /\ nLoads = 0
    /\ \A l \in Loaders : alive[l]
    /\ Exit
    /\ UNCHANGED <<scene, nLoads, lastLoad, mouseVars, frameVars>>

\* The window is closed while the main loop runs.
Close ==
    /\ pc = "loop"
    /\ Exit
    /\ UNCHANGED <<scene, nLoads, lastLoad, mouseVars, frameVars>>

MouseEvent(x, y) == pc = "loop" /\ mouseMotion(x, y)

keyboardDown(key) ==
    /\ pc = "loop"
    /\ keys' = keys \cup {key}
    /\ UNCHANGED <<pc, loaderVars, mouseVars, cameraPos, projection, view,
                   redisplay, timers>>

keyboardUp(key) ==
    /\ pc = "loop"
    /\ keys' = keys \ {key}
    /\ UNCHANGED <<pc, loaderVars, mouseVars, cameraPos, projection, view,
                   redisplay, timers>>

reshape(width, height) ==
    /\ pc = "loop"
    /\ gl' = [gl EXCEPT !.viewport = <<width, height>>]
    /\ projection' = Perspective(width, height)
    /\ UNCHANGED <<pc, meshes, alive, scene, nLoads, lastLoad, mouseVars,
                   cameraPos, keys, view, redisplay, timers>>

\* update without the glutTimerFunc call.
update_noRearm ==
    /\ pc = "loop"
    /\ timers > 0
    /\ redisplay' = TRUE
    /\ timers' = timers - 1
    /\ UNCHANGED <<pc, loaderVars, mouseVars, cameraPos, keys, projection, view>>

\* The timer callback.
update ==
    /\ pc = "loop"
    /\ timers > 0
    /\ redisplay' = TRUE
    /\ timers' = (timers - 1) + 1
    /\ UNCHANGED <<pc, loaderVars, mouseVars, cameraPos, keys, projection, view>>

\* renderScene computing the view matrix before the keys are applied.
renderScene_viewFirst ==
    /\ pc = "loop"
    /\ redisplay
    /\ LET pos  == processKeyboard(cameraPos, keys, cameraFront)
           proj == Perspective(2400, 1800)
           v    == LookAt(cameraPos, cameraFront)
           g0   == [gl EXCEPT !.calls = << GLCall("glClear", 0, gl),
                                          GLCall("glUseProgram", 0, gl),
                                          GLCall("glUniformMatrix4fv", <<"projection", proj>>, gl),
                                          GLCall("glUniformMatrix4fv", <<"view", v>>, gl) >>,
                              !.uniforms = [@ EXCEPT !.projection = proj, !.view = v]]
           g1   == [g0 EXCEPT !.calls = Append(@, GLCall("glUniformMatrix4fv",
                                                         <<"model", SpidermanModel>>, g0)),
                              !.uniforms = [@ EXCEPT !.model = SpidermanModel]]
           g2   == draw(meshes[2], g1)
           g3   == [g2 EXCEPT !.calls = Append(@, GLCall("glUniformMatrix4fv",
                                                         <<"model", MonsterModel>>, g2)),
                              !.uniforms = [@ EXCEPT !.model = MonsterModel]]
           g4   == draw(meshes[1], g3)
       IN  /\ Steps(pos) <= MaxMoves
           /\ cameraPos' = pos
           /\ projection' = proj
           /\ view' = v
           /\ gl' = [g4 EXCEPT !.calls = Append(@, GLCall("glutSwapBuffers", 0, g4))]
    /\ redisplay' = FALSE
    /\ UNCHANGED <<pc, meshes, alive, scene, nLoads, lastLoad, mouseVars, keys, timers>>

\* The display callback, run when a redisplay is due.
renderScene ==
    /\ pc = "loop"
    /\ redisplay
    /\ LET pos  == processKeyboard(cameraPos, keys, cameraFront)
           proj == Perspective(2400, 1800)
           v    == LookAt(pos, cameraFront)
           g0   == [gl EXCEPT !.calls = << GLCall("glClear", 0, gl),
                                          GLCall("glUseProgram", 0, gl),
                                          GLCall("glUniformMatrix4fv", <<"projection", proj>>, gl),
                                          GLCall("glUniformMatrix4fv", <<"view", v>>, gl) >>,
                              !.uniforms = [@ EXCEPT !.projection = proj, !.view = v]]
           g1   == [g0 EXCEPT !.calls = Append(@, GLCall("glUniformMatrix4fv",
                                                         <<"model", SpidermanModel>>, g0)),
                              !.uniforms = [@ EXCEPT !.model = SpidermanModel]]
           g2   == draw(meshes[2], g1)
           g3   == [g2 EXCEPT !.calls = Append(@, GLCall("glUniformMatrix4fv",
                                                         <<"model", MonsterModel>>, g2)),
                              !.uniforms = [@ EXCEPT !.model = MonsterModel]]
           g4   == draw(meshes[1], g3)
       IN  /\ Steps(pos) <= MaxMoves
           /\ cameraPos' = pos
           /\ projection' = proj
           /\ view' = v
           /\ gl' = [g4 EXCEPT !.calls = Append(@, GLCall("glutSwapBuffers", 0, g4))]
    /\ redisplay' = FALSE
    /\ UNCHANGED <<pc, meshes, alive, scene, nLoads, lastLoad, mouseVars, keys, timers>>

NextLoader ==
    \/ \E l \in Loaders, sc \in Scenes : LoadModel(l, sc)
    \/ \E l \in Loaders : Draw(l)
    \/ \E l \in Loaders : Destroy(l)

NextMouse == \E x \in PointerXs, y \in PointerYs : mouseMotion(x, y)

NextMain ==
    \/ \E sc1 \in Scenes1, sc2 \in Scenes2 : Setup(sc1, sc2)
    \/ GlewFail
    \/ \E x \in MainXs, y \in MainYs : MouseEvent(x, y)
    \/ \E key \in KeyCodes : keyboardDown(key)
    \/ \E key \in KeyCodes : keyboardUp(key)
    \/ \E sz \in WindowSizes : reshape(sz[1], sz[2])
    \/ update
    \/ renderScene
    \/ Close

\* The ModelLoader interface under any sequence of calls.
SpecLoader == Init /\ [][NextLoader]_vars
\* The mouse-motion callback under any sequence of events.
SpecMouse  == Init /\ [][NextMouse]_vars
\* The program: main, then the callbacks in any order until the window closes.
SpecMain   == Init /\ [][NextMain]_vars

\* The program with the window system delivering every pending timer.
SpecMainFair == SpecMain /\ WF_vars(update)

(***************************************************************************)
(* Reference definitions used by the properties                            *)
(***************************************************************************)
Loaded(l) == alive[l] /\ scene[l] # NoScene
LoadedOk(l) == Loaded(l) /\ ~ImportFailed(scene[l])

\* The loadModel call of loader l returns in this step.
LoadStep(l) == nLoads' = nLoads + 1 /\ lastLoad' = l

\* Path of a node from the root: the child positions followed to reach it.
RECURSIVE PathOf(_, _)
PathOf(sc, n) ==
    IF n = sc.mRootNode THEN <<>>
    ELSE LET p == CHOOSE q \in 1..Len(sc.nodes) : n \in Range(sc.nodes[q].mChildren)
             k == CHOOSE j \in 1..Len(sc.nodes[p].mChildren) : sc.nodes[p].mChildren[j] = n
         IN  Append(PathOf(sc, p), k)

\* Pre-order on paths: a node before its descendants, an earlier sibling's
\* subtree before a later sibling's.
RECURSIVE PathBefore(_, _)
PathBefore(p, q) ==
    IF p = <<>> THEN q # <<>>
    ELSE IF q = <<>> THEN FALSE
    ELSE IF Head(p) # Head(q) THEN Head(p) < Head(q)
    ELSE PathBefore(Tail(p), Tail(q))

\* A mesh reference: position k of the mMeshes array of node n.
Refs(sc) == { <<n, k>> : n \in 1..Len(sc.nodes), k \in 1..4 } \cap
            { r \in (1..Len(sc.nodes)) \X (1..4) : r[2] <= Len(sc.nodes[r[1]].mMeshes) }

RefBefore(sc, r, t) ==
    IF r[1] = t[1] THEN r[2] < t[2]
    ELSE PathBefore(PathOf(sc, r[1]), PathOf(sc, t[1]))

\* The i-th mesh reference of the scene in depth-first pre-order.
RefAt(sc, i) ==
    CHOOSE r \in Refs(sc) : Cardinality({t \in Refs(sc) : RefBefore(sc, t, r)}) = i - 1

\* The source mesh the i-th reference names.
SrcAt(sc, i) == LET r == RefAt(sc, i) IN sc.mMeshes[sc.nodes[r[1]].mMeshes[r[2]]]

HasDiffuse(sc, src) == sc.mMaterials[src.mMaterialIndex] # NoDiffuse
Decodes(sc, src) == FileChannels(sc.mMaterials[src.mMaterialIndex]) # 0

DiffuseRefs(sc) == Cardinality({ r \in Refs(sc) :
                      HasDiffuse(sc, sc.mMeshes[sc.nodes[r[1]].mMeshes[r[2]]]) })

(***************************************************************************)
(* Properties                                                              *)
(***************************************************************************)

\* C1: a loadModel call whose import fails (no scene, incomplete scene, or no
\* root node) leaves the loader with zero meshes, whatever it held before,
\* and processes no mesh: no buffer, vertex array or texture is created.
C1_FailedLoadEmpties ==
    [][\A l \in Loaders :
         (LoadStep(l) /\ ImportFailed(scene'[l]))
            => /\ meshes'[l] = <<>>
               /\ gl'.vaos = gl.vaos
               /\ gl'.bufs = gl.bufs
               /\ gl'.texs = gl.texs
               /\ gl'.decodes = gl.decodes
               /\ gl'.calls = <<>>]_vars

\* Witness of C1: loader l, the only loader ever loaded, built meshes in an
\* earlier call and its latest call failed.
C1_Witness ==
    \E l \in Loaders :
        /\ lastLoad = l /\ alive[l] /\ ImportFailed(scene[l])
        /\ \A o \in Loaders \ {l} : scene[o] = NoScene
        /\ Len(gl.vaos) > 0
        /\ meshes[l] = <<>>

\* C2 (as claimed): a mesh whose material names a diffuse image that fails to
\* decode has an empty textures list (the handle returned for it was 0).
C2_DecodeFailureNoTexture ==
    \A l \in Loaders : LoadedOk(l) =>
        \A i \in 1..Len(meshes[l]) :
            LET src == SrcAt(scene[l], i)
            IN  (HasDiffuse(scene[l], src) /\ ~Decodes(scene[l], src))
                    => meshes[l][i].textures = <<>>

\* C3 (as claimed): once the only loader that was ever loaded is destroyed,
\* every vertex-array and buffer name generated has been deleted exactly once.
C3_AllBuffersReleased ==
    \A l \in Loaders :
        (~alive[l] /\ \A o \in Loaders \ {l} : scene[o] = NoScene)
            => /\ \A h \in 1..Len(gl.vaos) : gl.vaos[h] = 1
               /\ \A h \in 1..Len(gl.bufs) : gl.bufs[h] = 1

\* C4: after any sequence of loadModel calls the meshes list holds exactly
\* the meshes built by the last call: as many as the last imported scene has
\* mesh references (none when that import failed), and, for the loader
\* called last, carrying the vertex arrays generated last.
C4_OnlyLastLoad ==
    \A l \in Loaders : Loaded(l) =>
        /\ Len(meshes[l]) = IF ImportFailed(scene[l]) THEN 0
                            ELSE Cardinality(Refs(scene[l]))
        /\ lastLoad = l =>
              \A i \in 1..Len(meshes[l]) :
                  meshes[l][i].VAO = Len(gl.vaos) - Len(meshes[l]) + i

\* Witness of C4: a loader holds the meshes of a second successful load after
\* an earlier load had built meshes on it.
C4_Witness ==
    \E l \in Loaders :
        /\ lastLoad = l /\ LoadedOk(l) /\ nLoads >= 2
        /\ \A o \in Loaders \ {l} : scene[o] = NoScene
        /\ Len(meshes[l]) > 0
        /\ Len(gl.vaos) > Len(meshes[l])

\* C5: after a successful loadModel the meshes list is the depth-first
\* pre-order listing of the scene tree: the i-th mesh is built from the i-th
\* mesh reference in pre-order, and there is one mesh per reference.
C5_PreOrder ==
    \A l \in Loaders : LoadedOk(l) =>
        /\ Len(meshes[l]) = Cardinality(Refs(scene[l]))
        /\ \A i \in 1..Len(meshes[l]) :
              SubSeq(meshes[l][i].vertices, 1, 3) = SrcAt(scene[l], i).mVertices[1]

\* Witness of C5: a loaded tree with a grandchild and a later sibling, where
\* depth-first and breadth-first orders differ.
C5_Witness ==
    \E l \in Loaders : LoadedOk(l) /\ scene[l].nodes = TreeD /\ Len(meshes[l]) = 4

\* C6: a built mesh has 8 floats per source vertex: position, then the source
\* normal or zeros when the source has no normals, then (u, v) of the first
\* texture-coordinate channel or zeros when the channel is absent.
C6_VertexLayout ==
    \A l \in Loaders : LoadedOk(l) =>
        \A i \in 1..Len(meshes[l]) :
            LET src == SrcAt(scene[l], i)
                v   == meshes[l][i].vertices
                n   == Len(src.mVertices)
            IN  /\ Len(v) = FloatsPerVertex * n
                /\ \A k \in 0..(n - 1) :
                     /\ SubSeq(v, 8 * k + 1, 8 * k + 3) = src.mVertices[k + 1]
                     /\ SubSeq(v, 8 * k + 4, 8 * k + 6) =
                            IF src.mNormals = NoNormals THEN <<0, 0, 0>>
                            ELSE src.mNormals[k + 1]
                     /\ SubSeq(v, 8 * k + 7, 8 * k + 8) =
                            IF src.mTextureCoords = NoTexCoords THEN <<0, 0>>
                            ELSE SubSeq(src.mTextureCoords[k + 1], 1, 2)

\* Witness of C6: one loader holds a mesh built without normals and a mesh
\* built without texture coordinates, each with more than one vertex.
C6_Witness ==
    \E l \in Loaders : LoadedOk(l) /\
        \E i, j \in 1..Len(meshes[l]) :
            /\ SrcAt(scene[l], i).mNormals = NoNormals
            /\ SrcAt(scene[l], i).mTextureCoords # NoTexCoords
            /\ SrcAt(scene[l], j).mNormals # NoNormals
            /\ SrcAt(scene[l], j).mTextureCoords = NoTexCoords
            /\ Len(meshes[l][i].vertices) = 16
            /\ Len(meshes[l][j].vertices) = 16

\* The mesh, of any loader, whose vertex array is named vao.
MeshesWithVAO(vao) ==
    { m \in UNION { Range(meshes[l]) : l \in Loaders } : m.VAO = vao }

IsDrawLog(calls) == \E j \in 1..Len(calls) : calls[j].fn = "glDrawElements"

C8_AtMostOne ==
    \A l \in Loaders : LoadedOk(l) =>
        \A i \in 1..Len(meshes[l]) :
            /\ Len(meshes[l][i].textures) <= 1
            /\ ~HasDiffuse(scene[l], SrcAt(scene[l], i)) => meshes[l][i].textures = <<>>

C8_NoBindWithoutTexture ==
    IsDrawLog(gl.calls) =>
        \A j \in 1..Len(gl.calls) :
            (gl.calls[j].fn = "glBindVertexArray" /\ gl.calls[j].arg # 0) =>
                \A m \in MeshesWithVAO(gl.calls[j].arg) :
                    m.textures = <<>> =>
                        (j = 1 \/ gl.calls[j - 1].fn # "glBindTexture")

C8_OnlyDiffuseCreates ==
    \A l \in Loaders :
        (LoadStep(l) /\ ~ImportFailed(scene'[l])) =>
            /\ Len(gl'.texs) - Len(gl.texs) = DiffuseRefs(scene'[l])
            /\ gl'.decodes - gl.decodes = DiffuseRefs(scene'[l])

\* C8: every built mesh has at most one texture; a mesh whose material has no
\* diffuse reference has an empty textures list, a load creates texture
\* objects and decodes images only for the mesh references whose material has
\* a diffuse reference, and draw issues no texture bind for a mesh with an
\* empty textures list.
C8_TexturesOnlyForDiffuse ==
    /\ [](C8_AtMostOne /\ C8_NoBindWithoutTexture)
    /\ [][C8_OnlyDiffuseCreates]_vars

\* Witness of C8: a draw has just drawn a mesh without diffuse reference and
\* a textured mesh of the same model.
C8_Witness ==
    \E l \in Loaders : LoadedOk(l) /\ IsDrawLog(gl.calls) /\
        \E i, j \in 1..Len(meshes[l]) :
            /\ ~HasDiffuse(scene[l], SrcAt(scene[l], i))
            /\ meshes[l][i].textures = <<>>
            /\ meshes[l][j].textures # <<>>
            /\ \E c \in 1..Len(gl.calls) :
                  gl.calls[c].fn = "glBindVertexArray" /\ gl.calls[c].arg = meshes[l][i].VAO
            /\ \E c \in 1..Len(gl.calls) :
                  gl.calls[c].fn = "glBindTexture" /\ gl.calls[c].arg = meshes[l][j].textures[1].id

C7_IndicesValid ==
    \A l \in Loaders : LoadedOk(l) =>
        \A i \in 1..Len(meshes[l]) :
            LET m == meshes[l][i]
            IN  /\ m.indices = Concat(SrcAt(scene[l], i).mFaces)
                /\ \A j \in 1..Len(m.indices) :
                     m.indices[j] >= 0 /\ m.indices[j] < Len(m.vertices) \div FloatsPerVertex

C7_ArraysFixed ==
    (pc = "loop" /\ pc' = "loop") =>
        \A l \in Loaders :
            /\ Len(meshes'[l]) = Len(meshes[l])
            /\ \A i \in 1..Len(meshes[l]) :
                  /\ meshes'[l][i].vertices = meshes[l][i].vertices
                  /\ meshes'[l][i].indices = meshes[l][i].indices

\* C7: for every mesh a model holds, the index list is the concatenation of
\* the source faces' indices in face order and every index is below the
\* vertex count (vertex-array length / 8); while the program runs its frame
\* and input callbacks neither array of any mesh changes.
C7_IndexArrays == []C7_IndicesValid /\ [][C7_ArraysFixed]_vars

\* Witness of C7: a frame has drawn the four meshes of a model after mouse and
\* keyboard input moved the camera.
C7_Witness ==
    /\ pc = "loop" /\ IsDrawLog(gl.calls)
    /\ Len(meshes[1]) = 4 /\ Len(meshes[2]) = 2
    /\ pointer # NoEvent /\ yaw # YawInit
    /\ keys # {} /\ cameraPos # CameraPos0

\* The pitch change a mouse-motion event asks for: the vertical distance from
\* the previous event's position, 0 for the first event.
PitchDelta == IF pointer = NoEvent THEN 0
              ELSE (pointer[2] - pointer'[2]) * Sensitivity

C9_ClampStep ==
    pointer' # NoEvent =>
        /\ pitch + PitchDelta > PitchLimit => pitch' = PitchLimit
        /\ pitch + PitchDelta < -PitchLimit => pitch' = -PitchLimit
        /\ (pitch + PitchDelta <= PitchLimit /\ pitch + PitchDelta >= -PitchLimit)
              => pitch' = pitch + PitchDelta

\* C9: pitch always lies in [-89, 89] degrees; a delta that would overshoot
\* leaves pitch exactly at the bound, and every delta is applied to the
\* stored (bounded) pitch, never to an overshot value.
C9_PitchClamped ==
    /\ [](pitch >= -PitchLimit /\ pitch <= PitchLimit)
    /\ [][C9_ClampStep]_vars

\* Witness of C9: pitch is 45 degrees below the upper bound, a value only
\* reached by overshooting to the bound and then moving down from it.
C9_Witness == pitch = PitchLimit - 4500 /\ ~firstMouse

C10_FirstEvent ==
    (pointer = NoEvent /\ pointer' # NoEvent) =>
        /\ yaw' = YawInit /\ pitch' = 0
        /\ cameraFront' = Front(YawInit, 0)
        /\ lastX' = pointer'[1] /\ lastY' = pointer'[2]
        /\ firstMouse /\ ~firstMouse'

C10_LaterEvents ==
    (pointer # NoEvent /\ pointer' # NoEvent) =>
        /\ lastX = pointer[1] /\ lastY = pointer[2]
        /\ yaw' - yaw = (pointer'[1] - pointer[1]) * Sensitivity
        /\ lastX' = pointer'[1] /\ lastY' = pointer'[2]

\* C10: the first mouse-motion event leaves yaw, pitch and the forward vector
\* at their initial values and records the position as the baseline; it
\* clears the first-sample flag, which is never set again, and every later
\* event is measured against the previous event's position.
C10_FirstSample ==
    /\ [][C10_FirstEvent /\ C10_LaterEvents /\ (~firstMouse => ~firstMouse')]_vars
    /\ [](firstMouse <=> pointer = NoEvent)

\* Witness of C10: a later event turned the camera after a first event, at a
\* position other than the initial baseline, had not.
C10_Witness ==
    /\ ~firstMouse /\ pointer # NoEvent
    /\ yaw = YawInit + 1200 * Sensitivity
    /\ lastX = 1200 /\ lastY = 0 /\ pitch = 0

\* The pointer delta of a mouse-motion event after the first.
Dx == pointer'[1] - pointer[1]
Dy == pointer'[2] - pointer[2]
LaterEvent == pointer # NoEvent /\ pointer' # NoEvent
Unclamped(p) == p <= PitchLimit /\ p >= -PitchLimit

\* C11 (as claimed): an event after the first changes yaw by dx * sensitivity
\* and, where the clamp does not act, pitch by dy * sensitivity.
C11_PitchFollowsDy ==
    [][LaterEvent =>
         /\ yaw' = yaw + Dx * Sensitivity
         /\ Unclamped(pitch + Dy * Sensitivity) => pitch' = pitch + Dy * Sensitivity]_vars

\* C11 (amended): an event after the first changes yaw by dx * sensitivity
\* and, where the clamp does not act, pitch by -dy * sensitivity (the vertical
\* offset is reversed: previous y minus y), with one sensitivity for both.
C11_PitchFollowsMinusDy ==
    [][LaterEvent =>
         /\ yaw' = yaw + Dx * Sensitivity
         /\ Unclamped(pitch - Dy * Sensitivity) => pitch' = pitch - Dy * Sensitivity]_vars

\* Witness of C11: an event after the first moved the pointer right by 1200
\* and up by 450 pixels from the baseline (0, 900), unclamped.
C11_Witness ==
    /\ pointer = <<1200, 450>>
    /\ yaw = YawInit + 1200 * Sensitivity
    /\ pitch = 450 * Sensitivity

\* The display callback runs in this step: only renderScene serves a
\* requested redisplay.
RenderStep == redisplay /\ ~redisplay'

MoveKeys == {"w", "s", "a", "d"}

\* C12 (as claimed): a render step leaves camera position, camera orientation
\* and the key flags unchanged, whatever keys are held.
C12_RenderWritesNothing ==
    [][RenderStep => UNCHANGED <<cameraPos, yaw, pitch, cameraFront, keys>>]_vars

\* C12 (amended): orientation is written only by mouse-motion events and the
\* key flags only by keyboard events; a render step leaves both unchanged for
\* any keys held, and it is the only step that writes the camera position,
\* which it leaves unchanged when none of w, s, a, d is held.
C12_RenderMovesOnlyWithKeys ==
    [][/\ RenderStep => /\ UNCHANGED <<yaw, pitch, cameraFront, keys>>
                        /\ keys \cap MoveKeys = {} => cameraPos' = cameraPos
       /\ <<yaw, pitch, cameraFront>>' # <<yaw, pitch, cameraFront>>
             => pointer' # pointer /\ ~RenderStep
       /\ keys' # keys => redisplay' = redisplay /\ pointer' = pointer
       /\ cameraPos' # cameraPos => RenderStep /\ keys \cap MoveKeys # {}]_vars

\* Witness of C12: a frame was rendered with only a non-movement key held,
\* after an earlier frame had moved the camera.
C12_Witness ==
    /\ pc = "loop" /\ ~redisplay /\ IsDrawLog(gl.calls)
    /\ keys = {"e"}
    /\ cameraPos # CameraPos0
    /\ view = LookAt(cameraPos, cameraFront)

\* C13 (as claimed): once a resize event has reported a size, every frame
\* uploads a projection whose aspect ratio is that of the latest size.
C13_ProjectionFollowsResize ==
    [][(RenderStep /\ gl.viewport # <<0, 0>>)
          => gl'.uniforms.projection = Perspective(gl.viewport[1], gl.viewport[2])]_vars

\* The camera position a frame must use: one step forward per w, back per s,
\* left per a, right per d, along the forward vector at the start of the frame.
HeldNet(plus, minus) == (IF plus \in keys THEN 1 ELSE 0) - (IF minus \in keys THEN 1 ELSE 0)
FramePos ==
    Move(Move(cameraPos, Step("front", cameraFront), HeldNet("w", "s")),
         Step("right", cameraFront), HeldNet("d", "a"))

\* Positions in a frame's call log.
IsUpload(c, name) == c.fn = "glUniformMatrix4fv" /\ c.arg[1] = name
DrawsOf(calls, l) ==
    { j \in 2..Len(calls) :
        /\ calls[j].fn = "glDrawElements"
        /\ calls[j - 1].fn = "glBindVertexArray"
        /\ \E i \in 1..Len(meshes[l]) : meshes[l][i].VAO = calls[j - 1].arg }
ModelUpload(calls, m) ==
    { j \in 1..Len(calls) : IsUpload(calls[j], "model") /\ calls[j].arg[2] = m }

C14_FrameOrder ==
    RenderStep =>
        LET c == gl'.calls
        IN  /\ cameraPos' = FramePos
            /\ view' = LookAt(cameraPos', cameraFront)
            /\ Len(c) >= 7
            /\ c[1].fn = "glClear"
            /\ c[2].fn = "glUseProgram"
            /\ IsUpload(c[3], "projection") /\ c[3].arg[2] = projection'
            /\ IsUpload(c[4], "view") /\ c[4].arg[2] = view'
            /\ ModelUpload(c, SpidermanModel) = {5}
            /\ \E k \in 6..Len(c) :
                  /\ ModelUpload(c, MonsterModel) = {k}
                  /\ \A j \in DrawsOf(c, 2) : 5 < j /\ j < k
                  /\ \A j \in DrawsOf(c, 1) : k < j
            /\ Cardinality(DrawsOf(c, 1)) = Len(meshes[1])
            /\ Cardinality(DrawsOf(c, 2)) = Len(meshes[2])
            /\ c[Len(c)].fn = "glutSwapBuffers"

\* C14: every frame first applies the held movement keys to the camera
\* position, then clears, binds the shader, uploads projection and the view
\* computed from the updated position, and for each model uploads its model
\* matrix before that model's draw calls.
C14_FrameSequence == [][C14_FrameOrder]_vars

\* Witness of C14: a frame drawn with w held has moved the camera, used the
\* moved position for its view, and drawn both models.
C14_Witness ==
    /\ pc = "loop" /\ ~redisplay /\ IsDrawLog(gl.calls)
    /\ "w" \in keys
    /\ cameraPos = Move(CameraPos0, Step("front", cameraFront), 1)
    /\ gl.uniforms.view = LookAt(cameraPos, cameraFront)
    /\ Len(meshes[1]) = 4 /\ Len(meshes[2]) = 2

\* C15: from main's registration of the first timer until the window closes
\* exactly one frame timer is pending, and, timers being delivered, a
\* redisplay is requested again and again whatever input events interleave.
C15_OneTimer ==
    /\ [](pc = "loop" => timers = 1)
    /\ [][(pc = "loop" /\ pc' = "loop") => timers' = timers]_vars
    /\ []<>(pc # "loop" \/ redisplay)

\* Witness of C15: a frame has served a redisplay and the timer has requested
\* the next one, with keys held and the mouse moved in between.
C15_Witness ==
    /\ pc = "loop" /\ timers = 1 /\ redisplay
    /\ IsDrawLog(gl.calls)
    /\ keys # {} /\ pointer # NoEvent

\* Number of channels of an upload format.
FormatChannels(format) ==
    CASE format = "GL_RED"  -> 1
      [] format = "GL_RGB"  -> 3
      [] format = "GL_RGBA" -> 4

\* C16 (as claimed): every decoded image is uploaded with a format of as many
\* channels as the decoder reported components, for every count from 1 to 4.
C16_FormatMatchesChannels ==
    \A h \in 1..Len(gl.texs) :
        gl.texs[h].image # "none"
            => FormatChannels(gl.texs[h].image) = FileChannels(gl.texs[h].path)

\* C17 (as claimed): at the draw call of a mesh whose textures list is empty
\* no texture is bound to GL_TEXTURE_2D, whatever was drawn before it.
C17_UntexturedDrawnUnbound ==
    IsDrawLog(gl.calls) =>
        \A j \in 2..Len(gl.calls) :
            (gl.calls[j].fn = "glDrawElements" /\ gl.calls[j - 1].fn = "glBindVertexArray") =>
                \A m \in MeshesWithVAO(gl.calls[j - 1].arg) :
                    m.textures = <<>> => gl.calls[j].tex = 0

LiveTextures(g) == { h \in 1..Len(g.texs) : g.texs[h].deletes = 0 }

C18_TexturesKept ==
    /\ \A h \in 1..Len(gl.texs) : h <= Len(gl'.texs) /\ gl'.texs[h] = gl.texs[h]
    /\ Cardinality(LiveTextures(gl')) >= Cardinality(LiveTextures(gl))
    /\ \A l \in Loaders : LoadStep(l) =>
          Cardinality(LiveTextures(gl')) - Cardinality(LiveTextures(gl))
              = IF ImportFailed(scene'[l]) THEN 0 ELSE DiffuseRefs(scene'[l])

\* C18: no operation deletes a texture object: a load creates one new object
\* per mesh reference whose material has a diffuse reference (also for a
\* repeated file and for a file that fails to decode), and re-loading or
\* destroying a model releases none, so the live texture objects never
\* decrease.
C18_TexturesNeverReleased ==
    /\ [][C18_TexturesKept]_vars
    /\ [](LiveTextures(gl) = 1..Len(gl.texs))

\* Witness of C18: a loader that had created textures was re-loaded with a
\* scene naming one file twice and an undecodable file, then destroyed; all
\* texture objects of both loads are still live.
C18_Witness ==
    \E l \in Loaders :
        /\ ~alive[l] /\ nLoads = 2
        /\ scene[l].nodes = TreeF /\ ~ImportFailed(scene[l])
        /\ \A o \in Loaders \ {l} : scene[o] = NoScene
        /\ Len(gl.texs) > 3
        /\ LiveTextures(gl) = 1..Len(gl.texs)
        /\ \E h \in 1..Len(gl.texs) : gl.texs[h].image = "none"

====
